---- MODULE Spec2Model ----
(***************************************************************************)
(* Model of click_odoo_contrib/backupdbs3.py: the `main` command and the   *)
(* pipeline it drives (_odoo_basic_backup, _backup_s3).  One run of main   *)
(* is a walk of `pc` through the statements of the three functions; the    *)
(* environment (database catalogue, file system, pg_dump, 7z, S3, SQL) is  *)
(* a nondeterministic choice at the statement that consults it.            *)
(***************************************************************************)
EXTENDS Integers, Sequences, FiniteSets, TLC

(* ---- bounds ---- *)
MaxRuns == 2
MaxClock == 3
MaxLines == 1

(* ---- program constants ---- *)
TicksPerSecond == 2
BytesPerGb == 1073741824
PRE == "bkdaily/"
EXT == "zip"
MANIFEST == "manifest.json"
DUMPSQL == "dump.sql"
DBDUMP == "db.dump"
FILESTORE == "filestore"

DbNames == {"shop", "crm"}
Formats == {"s3zip", "zip", "dump", "folder"}
DestStates == {"absent", "file", "dir"}
ContentLengths == {1610612736}

VARIABLES
    pc,          \* statement the run is at
    runs,        \* number of invocations of main started so far
    args,        \* the command line: dbname, force, if_exists, format, filestore
    dbExists,    \* answer of db_exists(dbname), <<>> while not asked
    destInit,    \* what os.path.exists(dest) found, <<>> while not asked
    dest,        \* what is at the destination path now
    include,     \* the filestore flag handed to _odoo_basic_backup
    clock,       \* the UTC clock, in ticks of 1/TicksPerSecond second
    zipName,     \* main's filename (dbname, ts, 'zip'), <<>> before line 230
    connected,   \* db_connect returned and close_db not yet called
    closeCount,  \* number of close_db calls of this run
    cursor,      \* "none", "open", "committed" or "rolledback"
    zipDir,      \* the outer TemporaryDirectory exists
    dumpDir,     \* the inner TemporaryDirectory exists
    dumpMembers, \* entries of dump_dir
    fsPresent,   \* answer of os.path.exists(filestore), <<>> while not asked
    archive,     \* the zip file in zip_dir: <<>> or <<[members, complete]>>
    sevenz,      \* the 7z child: [lines, exited, rc], lines = unread lines
    s3Instant,   \* clock value read in _backup_s3, <<>> before line 137
    s3Key,       \* the object key pre + filename, <<>> before line 138
    uploaded,    \* what upload_file stored in this run: <<>> or <<object>>
    overwrote,   \* upload_file of this run replaced an object already there
    headKey,     \* key head_object was asked about and answered, else <<>>
    headLen,     \* ContentLength of the response, <<>> without response
    pendingRow,  \* row inserted in the open transaction, not yet committed
    runRows,     \* rows this run committed
    bucket,      \* keys present in the bucket
    table,       \* committed rows of s3_backup_created
    shipped,     \* one entry per run that ended in success
    logFile,     \* the report file "<dest>_log.txt" was written by this run
    exc,         \* exception in flight, "none" when there is none
    excText,     \* what the message of the exception in flight carries
    caught,      \* exception the except clause of main caught, else "none"
    outcome,     \* how the run ended, "running" before
    trace        \* side effects of this run, in order

vars == <<pc, runs, args, dbExists, destInit, dest, include, clock, zipName,
          connected, closeCount, cursor, zipDir, dumpDir, dumpMembers,
          fsPresent, archive, sevenz, s3Instant, s3Key, uploaded, overwrote,
          headKey, headLen, pendingRow, runRows, bucket, table, shipped,
          logFile, exc, excText, caught, outcome, trace>>

\* variables of one run, all but pc, args, exc, outcome, trace and the clock
runVars == <<dbExists, destInit, dest, include, zipName, connected,
             closeCount, cursor, zipDir, dumpDir, dumpMembers, fsPresent,
             archive, sevenz, s3Instant, s3Key, uploaded, overwrote, headKey,
             headLen, pendingRow, runRows, logFile, caught>>
persistent == <<runs, bucket, table, shipped>>
validVars == <<dbExists, destInit, dest, include, zipName>>
sessVars == <<connected, closeCount, cursor>>
shipVars == <<s3Instant, s3Key, uploaded, overwrote, headKey, headLen,
              pendingRow, runRows>>

Args == [dbname : DbNames, force : BOOLEAN, if_exists : BOOLEAN,
         format : Formats, filestore : BOOLEAN]

NoProc == [lines |-> 0, exited |-> FALSE, rc |-> 0]

(* ---- pure helpers ---- *)

\* strftime("%Y-%m-%d_%H-%M-%S"): the instant truncated to whole seconds
StrftimeFine(t) == t
Strftime(t) == t \div TicksPerSecond

\* "%s_%s.%s" % (dbname, ts, 'zip')
Filename(dbname, t) == <<dbname, Strftime(t), EXT>>

\* pre + filename
ObjectKey(name) == <<PRE>> \o name

\* file_size_bytes / (1024 ** 3), a true division: kept as a fraction
FileSizeGb(bytes) == [num |-> bytes, den |-> BytesPerGb]

\* main, line 216-219: the run aborts on an existing destination
AbortsOnDestInverted(destExists, force) == destExists /\ force
AbortsOnDest(destExists, force) == destExists /\ ~force

\* main, line 220-226: the existing destination is removed
RemovesDestNever(destExists, force) == FALSE
RemovesDest(destExists, force) == destExists /\ force

\* main, line 227-228: the filestore flag passed on
IncludeAsAsked(format, filestore) == filestore
IncludeFilestore(format, filestore) ==
    IF format = "dump" THEN FALSE ELSE filestore

Log(e) == trace' = Append(trace, e)

Init ==
    /\ pc = "idle"
    /\ runs = 0
    /\ args = [dbname |-> "shop", force |-> FALSE, if_exists |-> FALSE,
               format |-> "s3zip", filestore |-> TRUE]
    /\ dbExists = <<>>
    /\ destInit = <<>>
    /\ dest = "absent"
    /\ include = FALSE
    /\ clock = 0
    /\ zipName = <<>>
    /\ connected = FALSE
    /\ closeCount = 0
    /\ cursor = "none"
    /\ zipDir = FALSE
    /\ dumpDir = FALSE
    /\ dumpMembers = {}
    /\ fsPresent = <<>>
    /\ archive = <<>>
    /\ sevenz = NoProc
    /\ s3Instant = <<>>
    /\ s3Key = <<>>
    /\ uploaded = <<>>
    /\ overwrote = FALSE
    /\ headKey = <<>>
    /\ headLen = <<>>
    /\ pendingRow = <<>>
    /\ runRows = <<>>
    /\ bucket = {}
    /\ table = <<>>
    /\ shipped = <<>>
    /\ logFile = FALSE
    /\ exc = "none"
    /\ excText = {}
    /\ caught = "none"
    /\ outcome = "running"
    /\ trace = <<>>

(* ---- the run: main, lines 191-241 ---- *)

\* raise kind at the current statement; control goes to handler h
Raise(kind, text, h) ==
    /\ exc' = kind
    /\ excText' = text
    /\ pc' = h

\* the run is over without an exception having reached a handler
Finish(how) ==
    /\ outcome' = how
    /\ pc' = "end"

\* datetime.datetime.utcnow(): time passes between two readings
Now == clock .. (IF clock < MaxClock THEN clock + 1 ELSE clock)

\* the command is invoked
StartRun ==
    /\ pc = "idle"
    /\ runs < MaxRuns
    /\ runs' = runs + 1
    /\ \E a \in Args : args' = a
    /\ pc' = "db_exists"
    /\ UNCHANGED <<runVars, clock, bucket, table, shipped, exc, excText,
                   outcome, trace>>

\* line 209-215: what main does with the answer of db_exists
GoesOnWhenTolerated(exists, if_exists) ==
    IF exists \/ if_exists THEN "dest_check" ELSE "raise"
AfterDbExists(exists, if_exists) ==
    IF exists THEN "dest_check" ELSE IF if_exists THEN "return" ELSE "raise"

\* line 209-215
CheckDbExists ==
    /\ pc = "db_exists"
    /\ \E e \in BOOLEAN :
        /\ dbExists' = <<e>>
        /\ LET next == AfterDbExists(e, args.if_exists)
           IN  CASE next = "dest_check" ->
                        pc' = "dest_check" /\ UNCHANGED <<exc, excText, outcome>>
                 [] next = "return" ->
                        Finish("early_exit") /\ UNCHANGED <<exc, excText>>
                 [] next = "raise" ->
                        /\ Raise("ClickException", {"Database does not exist"},
                                 "end")
                        /\ outcome' = "raised"
    /\ UNCHANGED <<runs, args, destInit, dest, include, clock, zipName,
                   connected, closeCount, cursor, zipDir, dumpDir, dumpMembers,
                   fsPresent, archive, sevenz, s3Instant, s3Key, uploaded,
                   overwrote, headKey, headLen, pendingRow, runRows, bucket,
                   table, shipped, logFile, caught, trace>>

\* line 216-222
CheckDest ==
    /\ pc = "dest_check"
    /\ \E d \in DestStates :
        /\ destInit' = <<d>>
        /\ dest' = d
        /\ IF AbortsOnDest(d # "absent", args.force)
           THEN /\ Raise("ClickException", {"Destination already exist"}, "end")
                /\ outcome' = "raised"
           ELSE /\ pc' = IF RemovesDest(d # "absent", args.force)
                         THEN "remove_dest" ELSE "prepare"
                /\ UNCHANGED <<exc, excText, outcome>>
    /\ UNCHANGED <<runs, args, dbExists, include, clock, zipName,
                   connected, closeCount, cursor, zipDir, dumpDir, dumpMembers,
                   fsPresent, archive, sevenz, s3Instant, s3Key, uploaded,
                   overwrote, headKey, headLen, pendingRow, runRows, bucket,
                   table, shipped, logFile, caught, trace>>

\* line 223-226: os.unlink(dest) or shutil.rmtree(dest); either may raise
RemoveDest ==
    /\ pc = "remove_dest"
    /\ \/ /\ dest' = "absent"
          /\ Log("remove_dest")
          /\ pc' = "prepare"
          /\ UNCHANGED <<exc, excText, outcome>>
       \/ /\ Raise("OSError@remove", {"remove"}, "end")
          /\ outcome' = "raised"
          /\ UNCHANGED <<dest, trace>>
    /\ UNCHANGED <<runs, args, dbExists, destInit, include, clock, zipName,
                   connected, closeCount, cursor, zipDir, dumpDir, dumpMembers,
                   fsPresent, archive, sevenz, s3Instant, s3Key, uploaded,
                   overwrote, headKey, headLen, pendingRow, runRows, bucket,
                   table, shipped, logFile, caught>>

\* line 227-230
Prepare ==
    /\ pc = "prepare"
    /\ include' = IncludeFilestore(args.format, args.filestore)
    /\ \E t \in Now :
        /\ clock' = t
        /\ zipName' = Filename(args.dbname, t)
    /\ pc' = "db_connect"
    /\ UNCHANGED <<runs, args, dbExists, destInit, dest,
                   connected, closeCount, cursor, zipDir, dumpDir, dumpMembers,
                   fsPresent, archive, sevenz, s3Instant, s3Key, uploaded,
                   overwrote, headKey, headLen, pendingRow, runRows, bucket,
                   table, shipped, logFile, caught, exc, excText, outcome, trace>>

\* line 231: odoo.sql_db.db_connect(dbname), outside the try
DbConnect ==
    /\ pc = "db_connect"
    /\ \/ /\ connected' = TRUE
          /\ Log("db_connect")
          /\ pc' = "cursor"
          /\ UNCHANGED <<exc, excText, outcome>>
       \/ /\ Raise("Error@db_connect", {"connect"}, "end")
          /\ outcome' = "raised"
          /\ UNCHANGED <<connected, trace>>
    /\ UNCHANGED <<runs, args, dbExists, destInit, dest, include, clock,
                   zipName, closeCount, cursor, zipDir, dumpDir, dumpMembers,
                   fsPresent, archive, sevenz, s3Instant, s3Key, uploaded,
                   overwrote, headKey, headLen, pendingRow, runRows, bucket,
                   table, shipped, logFile, caught>>

\* line 233: with db.cursor() as cr
OpenCursor ==
    /\ pc = "cursor"
    /\ \/ /\ cursor' = "open"
          /\ Log("cursor_open")
          /\ pc' = "mk_zip_dir"
          /\ UNCHANGED <<exc, excText>>
       \/ /\ Raise("Error@cursor", {"cursor"}, "except")
          /\ UNCHANGED <<cursor, trace>>
    /\ UNCHANGED <<runs, args, dbExists, destInit, dest, include, clock,
                   zipName, connected, closeCount, zipDir, dumpDir,
                   dumpMembers, fsPresent, archive, sevenz, s3Instant, s3Key,
                   uploaded, overwrote, headKey, headLen, pendingRow, runRows,
                   bucket, table, shipped, logFile, caught, outcome>>

(* ---- _odoo_basic_backup, lines 46-89 ---- *)

\* what is left of a TemporaryDirectory when its with block is left
KeptOnError(existed, raising) == existed /\ raising
AfterWithExit(existed, raising) == FALSE

\* line 51: with tempfile.TemporaryDirectory() as zip_dir
MkZipDir ==
    /\ pc = "mk_zip_dir"
    /\ zipDir' = TRUE
    /\ Log("mk_zip_dir")
    /\ pc' = "mk_dump_dir"
    /\ UNCHANGED <<persistent, args, validVars, sessVars, shipVars, clock,
                   dumpDir, dumpMembers, fsPresent, archive, sevenz, logFile, caught,
                   exc, excText, outcome>>

\* line 52-55: with tempfile.TemporaryDirectory() as dump_dir
MkDumpDir ==
    /\ pc = "mk_dump_dir"
    /\ dumpDir' = TRUE
    /\ Log("mk_dump_dir")
    /\ pc' = "manifest"
    /\ UNCHANGED <<persistent, args, validVars, sessVars, shipVars, clock,
                   zipDir, dumpMembers, fsPresent, archive, sevenz, logFile, caught,
                   exc, excText, outcome>>

\* line 56-73: the order of the statements of the inner with block
FilestoreFirst(step) ==
    CASE step = "manifest" -> "filestore"
      [] step = "filestore" -> "pg_dump"
      [] step = "pg_dump" -> "spawn_7z"
NextStep(step) ==
    CASE step = "manifest" -> "pg_dump"
      [] step = "pg_dump" -> "filestore"
      [] step = "filestore" -> "spawn_7z"

\* line 64: if rc
ReturnCodeIgnored(rc) == FALSE
PgDumpRaises(rc) == rc # 0

\* line 56-58: the file is opened for writing, then the manifest is read
\* from the cursor (dump_db_manifest, lines 30-43) and written
WriteManifest ==
    /\ pc = "manifest"
    /\ dumpMembers' = dumpMembers \cup {MANIFEST}
    /\ Log("manifest")
    /\ \/ pc' = NextStep("manifest") /\ UNCHANGED <<exc, excText>>
       \/ Raise("Error@manifest", {"manifest"}, "exit_dump_dir")
    /\ UNCHANGED <<persistent, args, validVars, sessVars, shipVars, clock,
                   zipDir, dumpDir, fsPresent, archive, sevenz, logFile, caught,
                   outcome>>

\* line 60-68: pg_dump --file=<dump_dir>/dump.sql, plain dialect; the message
\* of the exception is built from the command, rc, stdout and stderr
PgDump ==
    /\ pc = "pg_dump"
    /\ \/ \E rc \in {0, 1} :
            /\ trace' = trace \o (IF rc = 0 THEN <<"pg_dump">>
                                  ELSE <<"pg_dump", "pg_dump_failed">>)
            /\ IF PgDumpRaises(rc)
               THEN /\ \E partial \in BOOLEAN :
                        dumpMembers' = IF partial
                                       THEN dumpMembers \cup {DUMPSQL}
                                       ELSE dumpMembers
                    /\ Raise("Exception@pg_dump",
                             {"args", "rc", "stdout", "stderr"},
                             "exit_dump_dir")
               ELSE /\ dumpMembers' = dumpMembers \cup {DUMPSQL}
                    /\ pc' = NextStep("pg_dump")
                    /\ UNCHANGED <<exc, excText>>
       \/ /\ Raise("OSError@pg_dump", {"Popen"}, "exit_dump_dir")
          /\ UNCHANGED <<dumpMembers, trace>>
    /\ UNCHANGED <<persistent, args, validVars, sessVars, shipVars, clock,
                   zipDir, dumpDir, fsPresent, archive, sevenz, logFile, caught,
                   outcome>>

\* line 70-73
CopyFilestore ==
    /\ pc = "filestore"
    /\ IF include
       THEN \E present \in BOOLEAN :
             /\ fsPresent' = <<present>>
             /\ IF present
                THEN /\ Log("copy_filestore")
                     /\ dumpMembers' = dumpMembers \cup {FILESTORE}
                     /\ \/ /\ pc' = NextStep("filestore")
                           /\ UNCHANGED <<exc, excText>>
                        \/ Raise("Error@copytree", {"copytree"}, "exit_dump_dir")
                ELSE /\ pc' = NextStep("filestore")
                     /\ UNCHANGED <<dumpMembers, trace, exc, excText>>
       ELSE /\ pc' = NextStep("filestore")
            /\ UNCHANGED <<fsPresent, dumpMembers, trace, exc, excText>>
    /\ UNCHANGED <<persistent, args, validVars, sessVars, shipVars, clock,
                   zipDir, dumpDir, archive, sevenz, logFile, caught, outcome>>

\* line 75-77: subprocess.Popen(['7z', 'a', ...])
Spawn7z ==
    /\ pc = "spawn_7z"
    /\ \/ /\ \E n \in 0 .. MaxLines :
                sevenz' = [lines |-> n, exited |-> FALSE, rc |-> 0]
          /\ Log("7z")
          /\ pc' = "loop_7z"
          /\ UNCHANGED <<exc, excText>>
       \/ /\ Raise("OSError@7z", {"Popen"}, "exit_dump_dir")
          /\ UNCHANGED <<sevenz, trace>>
    /\ UNCHANGED <<persistent, args, validVars, sessVars, shipVars, clock,
                   zipDir, dumpDir, dumpMembers, fsPresent, archive, logFile, caught,
                   outcome>>

\* the 7z child exits: with code 0 the archive holds the entries of dump_dir,
\* with another code the archive is missing or incomplete
Exit7z ==
    /\ pc = "loop_7z"
    /\ ~sevenz.exited
    /\ \/ /\ sevenz' = [sevenz EXCEPT !.exited = TRUE, !.rc = 0]
          /\ archive' = <<[members |-> dumpMembers, complete |-> TRUE]>>
       \/ /\ sevenz' = [sevenz EXCEPT !.exited = TRUE, !.rc = 2]
          /\ \/ archive' = <<>>
             \/ archive' = <<[members |-> dumpMembers, complete |-> FALSE]>>
    /\ UNCHANGED <<pc, persistent, args, validVars, sessVars, shipVars, clock,
                   zipDir, dumpDir, dumpMembers, fsPresent, logFile, caught, exc,
                   excText, outcome, trace>>

\* line 78-83, one turn of the loop that returns a line of output
ReadLine7z ==
    /\ pc = "loop_7z"
    /\ sevenz.lines > 0
    /\ sevenz' = [sevenz EXCEPT !.lines = @ - 1]
    /\ UNCHANGED <<pc, persistent, args, validVars, sessVars, shipVars, clock,
                   zipDir, dumpDir, dumpMembers, fsPresent, archive, logFile, caught,
                   exc, excText, outcome, trace>>

\* line 80: if not output and process.poll() is not None
BreaksWhileRunning(noOutput, exited) == noOutput /\ ~exited
BreakCondition(noOutput, exited) == noOutput /\ exited

\* line 80-81 and 86-87: no output left and poll() is not None; the return
\* code is only looked at to print a message
Break7z ==
    /\ pc = "loop_7z"
    /\ BreakCondition(sevenz.lines = 0, sevenz.exited)
    /\ pc' = "exit_dump_dir"
    /\ UNCHANGED <<persistent, args, validVars, sessVars, shipVars, clock,
                   zipDir, dumpDir, dumpMembers, fsPresent, archive, sevenz,
                   logFile, caught, exc, excText, outcome, trace>>

\* end of the with block of line 52, left normally or by an exception
ExitDumpDir ==
    /\ pc = "exit_dump_dir"
    /\ dumpDir' = AfterWithExit(dumpDir, exc # "none")
    /\ dumpMembers' = IF dumpDir' THEN dumpMembers ELSE {}
    /\ Log("exit_dump_dir")
    /\ pc' = IF exc = "none" THEN "s3_key" ELSE "exit_zip_dir"
    /\ UNCHANGED <<persistent, args, validVars, sessVars, shipVars, clock,
                   zipDir, fsPresent, archive, sevenz, logFile, caught, exc, excText,
                   outcome>>

(* ---- _backup_s3, lines 119-160 ---- *)

\* line 142-149: what follows the answer of head_object
InsertAnyway(ok) == "insert"
AfterHead(ok) == IF ok THEN "insert" ELSE "raise"

\* line 141-160: no statement of _backup_s3 catches anything; an exception
\* leaves the function for the with block of line 51
CleanThenLeave == "s3_clean"
ShipperHandler == "exit_zip_dir"

\* line 137-140: ts, filename, pre
S3Key ==
    /\ pc = "s3_key"
    /\ \E t \in Now :
        /\ clock' = t
        /\ s3Instant' = <<t>>
        /\ s3Key' = <<ObjectKey(Filename(args.dbname, t))>>
    /\ pc' = "upload"
    /\ UNCHANGED <<persistent, args, validVars, sessVars, zipDir, dumpDir,
                   dumpMembers, fsPresent, archive, sevenz, uploaded,
                   overwrote, headKey, headLen, pendingRow, runRows, logFile,
                   caught, exc, excText, outcome, trace>>

\* line 141: client.upload_file(dest, Bucket, Key); dest is the zip file
Upload ==
    /\ pc = "upload"
    /\ Log("upload")
    /\ \/ /\ archive # <<>>
          /\ uploaded' = <<[key |-> s3Key[1], members |-> archive[1].members,
                            complete |-> archive[1].complete]>>
          /\ overwrote' = (s3Key[1] \in bucket)
          /\ bucket' = bucket \cup {s3Key[1]}
          /\ pc' = "head"
          /\ UNCHANGED <<exc, excText>>
       \/ /\ Raise("Error@upload_file", {"upload_file"}, ShipperHandler)
          /\ UNCHANGED <<uploaded, overwrote, bucket>>
    /\ UNCHANGED <<runs, table, shipped, args, validVars, sessVars, clock,
                   zipDir, dumpDir, dumpMembers, fsPresent, archive, sevenz,
                   s3Instant, s3Key, headKey, headLen, pendingRow, runRows,
                   logFile, caught, outcome>>

\* line 142-146: client.head_object(Bucket, Key), then ContentLength
HeadObject ==
    /\ pc = "head"
    /\ Log("head_object")
    /\ \/ /\ s3Key[1] \in bucket
          /\ headKey' = s3Key
          /\ \E n \in ContentLengths : headLen' = <<n>>
          /\ pc' = AfterHead(TRUE)
          /\ UNCHANGED <<exc, excText>>
       \/ /\ UNCHANGED headKey
          /\ IF AfterHead(FALSE) = "raise"
             THEN /\ Raise("ClientError@head_object", {"head_object"}, ShipperHandler)
                  /\ UNCHANGED headLen
             ELSE /\ pc' = AfterHead(FALSE)
                  /\ headLen' = <<0>>
                  /\ UNCHANGED <<exc, excText>>
    /\ UNCHANGED <<persistent, args, validVars, sessVars, clock,
                   zipDir, dumpDir, dumpMembers, fsPresent, archive, sevenz,
                   s3Instant, s3Key, uploaded, overwrote, pendingRow, runRows,
                   logFile, caught, outcome>>

\* line 154: cr.commit() follows the INSERT, the deletion comes after it
SkipCommit == "s3_clean"
AfterInsert == "commit"

\* line 152: the first parameter of the INSERT is filename, not pre + filename
RowNameWithPrefix(name) == ObjectKey(name)
RowName(name) == name

\* line 149-153: INSERT INTO s3_backup_created (name, size, ...)
InsertRow ==
    /\ pc = "insert"
    /\ Log("insert")
    /\ \/ /\ pendingRow' = <<[name |-> RowName(Filename(args.dbname,
                                                          s3Instant[1])),
                              size |-> FileSizeGb(headLen[1])]>>
          /\ pc' = AfterInsert
          /\ UNCHANGED <<exc, excText>>
       \/ /\ Raise("Error@insert", {"insert"}, ShipperHandler)
          /\ UNCHANGED pendingRow
    /\ UNCHANGED <<persistent, args, validVars, sessVars, clock,
                   zipDir, dumpDir, dumpMembers, fsPresent, archive, sevenz,
                   s3Instant, s3Key, uploaded, overwrote, headKey, headLen,
                   runRows, logFile, caught, outcome>>

\* line 154: cr.commit()
Commit ==
    /\ pc = "commit"
    /\ \/ /\ table' = table \o pendingRow
          /\ runRows' = runRows \o pendingRow
          /\ pendingRow' = <<>>
          /\ Log("commit")
          /\ pc' = "s3_clean"
          /\ UNCHANGED <<exc, excText>>
       \/ /\ Raise("Error@commit", {"commit"}, ShipperHandler)
          /\ UNCHANGED <<table, runRows, pendingRow, trace>>
    /\ UNCHANGED <<runs, bucket, shipped, args, validVars, sessVars, clock,
                   zipDir, dumpDir, dumpMembers, fsPresent, archive, sevenz,
                   s3Instant, s3Key, uploaded, overwrote, headKey, headLen,
                   logFile, caught, outcome>>

\* line 155-160: the uploaded file is deleted
S3Clean ==
    /\ pc = "s3_clean"
    /\ IF archive # <<>>
       THEN archive' = <<>> /\ Log("unlink_artifact")
       ELSE UNCHANGED <<archive, trace>>
    /\ pc' = "exit_zip_dir"
    /\ UNCHANGED <<persistent, args, validVars, sessVars, shipVars, clock,
                   zipDir, dumpDir, dumpMembers, fsPresent, sevenz, logFile,
                   caught, exc, excText, outcome>>

(* ---- leaving the blocks: lines 51, 233, 235-241 ---- *)

\* end of the with block of line 51
ExitZipDir ==
    /\ pc = "exit_zip_dir"
    /\ zipDir' = AfterWithExit(zipDir, exc # "none")
    /\ archive' = IF zipDir' THEN archive ELSE <<>>
    /\ Log("exit_zip_dir")
    /\ pc' = "exit_cursor"
    /\ UNCHANGED <<persistent, args, validVars, sessVars, shipVars, clock,
                   dumpDir, dumpMembers, fsPresent, sevenz, logFile, caught,
                   exc, excText, outcome>>

\* state of the cursor once the with block of line 233 has been left
LeftOpenOnError(raising) == IF raising THEN "open" ELSE "committed"
CursorAfterExit(raising) == IF raising THEN "rolledback" ELSE "committed"

\* end of the with block of line 233: commit and close when left normally,
\* close without commit when left by an exception
ExitCursor ==
    /\ pc = "exit_cursor"
    /\ cursor' = CursorAfterExit(exc # "none")
    /\ IF exc = "none"
       THEN /\ table' = table \o pendingRow
            /\ runRows' = runRows \o pendingRow
            /\ pc' = "finally"
       ELSE /\ UNCHANGED <<table, runRows>>
            /\ pc' = "except"
    /\ pendingRow' = <<>>
    /\ Log("cursor_close")
    /\ UNCHANGED <<runs, bucket, shipped, args, validVars, connected,
                   closeCount, clock, zipDir, dumpDir, dumpMembers, fsPresent,
                   archive, sevenz, s3Instant, s3Key, uploaded, overwrote,
                   headKey, headLen, logFile, caught, exc, excText, outcome>>

\* line 235: except Exception; every kind raised in the try block is one
CatchesOnlyOSError(kind) == kind \in {"OSError@pg_dump", "OSError@7z"}
ExceptCatches(kind) == TRUE

\* line 240: the finally clause runs whether or not an exception is leaving
SkippedWhenRaising(raising) == ~raising
FinallyRuns(raising) == TRUE

\* line 235-239: the trace is written to the report file, whose path
\* dest.replace('.zip', '_log') + ".txt" is four characters longer than dest
\* and so never is dest; opening or writing that file may itself raise
Except ==
    /\ pc = "except"
    /\ IF ExceptCatches(exc)
       THEN /\ caught' = exc
            /\ \/ /\ logFile' = TRUE
                  /\ Log("write_log")
                  /\ exc' = "none"
                  /\ excText' = {}
                  /\ pc' = "finally"
                  /\ UNCHANGED outcome
               \/ /\ Raise("OSError@log", {"open log"},
                           IF FinallyRuns(TRUE) THEN "finally" ELSE "end")
                  /\ outcome' = IF FinallyRuns(TRUE) THEN outcome ELSE "raised"
                  /\ UNCHANGED <<logFile, trace>>
       ELSE /\ pc' = "finally"
            /\ UNCHANGED <<caught, logFile, trace, exc, excText, outcome>>
    /\ UNCHANGED <<persistent, args, validVars, sessVars, shipVars, clock,
                   zipDir, dumpDir, dumpMembers, fsPresent, archive, sevenz>>

\* line 240-241, then main returns or the exception leaves main
Finally ==
    /\ pc = "finally"
    /\ connected' = FALSE
    /\ closeCount' = closeCount + 1
    /\ Log("close_db")
    /\ outcome' = IF exc # "none" THEN "raised"
                  ELSE IF caught # "none" THEN "failed" ELSE "success"
    /\ shipped' = IF outcome' = "success"
                  THEN Append(shipped, [db |-> args.dbname,
                                        instant |-> s3Instant[1],
                                        key |-> s3Key[1]])
                  ELSE shipped
    /\ pc' = "end"
    /\ UNCHANGED <<runs, bucket, table, args, validVars, cursor, shipVars,
                   clock, zipDir, dumpDir, dumpMembers, fsPresent, archive,
                   sevenz, logFile, caught, exc, excText>>

\* line 244-245: the process ends; nothing of the run but the bucket, the
\* table and the clock is left for the next invocation
Exit ==
    /\ pc = "end"
    /\ pc' = "idle"
    /\ args' = [dbname |-> "shop", force |-> FALSE, if_exists |-> FALSE,
                format |-> "s3zip", filestore |-> TRUE]
    /\ dbExists' = <<>>
    /\ destInit' = <<>>
    /\ dest' = "absent"
    /\ include' = FALSE
    /\ zipName' = <<>>
    /\ connected' = FALSE
    /\ closeCount' = 0
    /\ cursor' = "none"
    /\ zipDir' = FALSE
    /\ dumpDir' = FALSE
    /\ dumpMembers' = {}
    /\ fsPresent' = <<>>
    /\ archive' = <<>>
    /\ sevenz' = NoProc
    /\ s3Instant' = <<>>
    /\ s3Key' = <<>>
    /\ uploaded' = <<>>
    /\ overwrote' = FALSE
    /\ headKey' = <<>>
    /\ headLen' = <<>>
    /\ pendingRow' = <<>>
    /\ runRows' = <<>>
    /\ logFile' = FALSE
    /\ exc' = "none"
    /\ excText' = {}
    /\ caught' = "none"
    /\ outcome' = "running"
    /\ trace' = <<>>
    /\ UNCHANGED <<persistent, clock>>

Next ==
    \/ StartRun
    \/ CheckDbExists
    \/ CheckDest
    \/ RemoveDest
    \/ Prepare
    \/ DbConnect
    \/ OpenCursor
    \/ MkZipDir
    \/ MkDumpDir
    \/ WriteManifest
    \/ PgDump
    \/ CopyFilestore
    \/ Spawn7z
    \/ Exit7z
    \/ ReadLine7z
    \/ Break7z
    \/ ExitDumpDir
    \/ S3Key
    \/ Upload
    \/ HeadObject
    \/ InsertRow
    \/ Commit
    \/ S3Clean
    \/ ExitZipDir
    \/ ExitCursor
    \/ Except
    \/ Finally
    \/ Exit

Spec == Init /\ [][Next]_vars

\* the statements of one invocation: every call main makes returns
MainStep ==
    \/ CheckDbExists \/ CheckDest \/ RemoveDest \/ Prepare \/ DbConnect
    \/ OpenCursor \/ MkZipDir \/ MkDumpDir \/ WriteManifest \/ PgDump
    \/ CopyFilestore \/ Spawn7z \/ ReadLine7z \/ Break7z \/ ExitDumpDir
    \/ S3Key \/ Upload \/ HeadObject \/ InsertRow \/ Commit \/ S3Clean
    \/ ExitZipDir \/ ExitCursor \/ Except \/ Finally

\* the last invocation the bound admits, started from a clean state
InitLast ==
    /\ pc = "idle"
    /\ runs = MaxRuns - 1
    /\ args = [dbname |-> "shop", force |-> FALSE, if_exists |-> FALSE,
               format |-> "s3zip", filestore |-> TRUE]
    /\ dbExists = <<>>
    /\ destInit = <<>>
    /\ dest = "absent"
    /\ include = FALSE
    /\ clock = 0
    /\ zipName = <<>>
    /\ connected = FALSE
    /\ closeCount = 0
    /\ cursor = "none"
    /\ zipDir = FALSE
    /\ dumpDir = FALSE
    /\ dumpMembers = {}
    /\ fsPresent = <<>>
    /\ archive = <<>>
    /\ sevenz = NoProc
    /\ s3Instant = <<>>
    /\ s3Key = <<>>
    /\ uploaded = <<>>
    /\ overwrote = FALSE
    /\ headKey = <<>>
    /\ headLen = <<>>
    /\ pendingRow = <<>>
    /\ runRows = <<>>
    /\ bucket = {}
    /\ table = <<>>
    /\ shipped = <<>>
    /\ logFile = FALSE
    /\ exc = "none"
    /\ excText = {}
    /\ caught = "none"
    /\ outcome = "running"
    /\ trace = <<>>

\* one invocation of main, every outcome of every call allowed
RunSpec == InitLast /\ [][Next]_vars

\* one invocation in which main keeps running and the 7z child exits
LiveSpec ==
    InitLast /\ [][Next]_vars /\ WF_vars(MainStep) /\ WF_vars(Exit7z)

TypeOK ==
    /\ runs \in 0 .. MaxRuns
    /\ args \in Args
    /\ clock \in 0 .. MaxClock
    /\ closeCount \in Nat
    /\ Len(table) <= MaxRuns

(* ---- properties ---- *)

Has(e) == \E i \in DOMAIN trace : trace[i] = e

\* every occurrence of b in the trace has an a before it
Precedes(a, b) ==
    \A i \in DOMAIN trace :
        trace[i] = b => \E j \in 1 .. (i - 1) : trace[j] = a

HeadError == "ClientError@head_object"

DestCollision ==
    /\ dbExists = <<TRUE>>
    /\ destInit \in {<<"file">>, <<"dir">>}

\* C1: a run whose database exists, whose destination already exists and
\* which is not forced ends with the destination-exists error; it has
\* started no pg_dump, no 7z, no upload, opened no connection or cursor,
\* and what was at the destination is still there.
C1_DestinationExistsFailsFast ==
    (DestCollision /\ ~args.force) =>
        /\ pc = "end"
        /\ outcome = "raised"
        /\ exc = "ClickException"
        /\ excText = {"Destination already exist"}
        /\ trace = <<>>
        /\ ~connected
        /\ cursor = "none"
        /\ uploaded = <<>>
        /\ dest = destInit[1]

C1_Witness ==
    /\ DestCollision
    /\ ~args.force
    /\ args.format = "s3zip"
    /\ destInit = <<"dir">>
    /\ pc = "end"
    /\ outcome = "raised"

\* C2 as stated: at the end of a run a row has been committed if and only
\* if head_object on the uploaded key succeeded.
C2_RowIffHeadSucceeded ==
    pc = "end" => (Len(runRows) = 1 <=> (uploaded # <<>> /\ headKey = s3Key
                                         /\ headKey # <<>>))

\* C2, amended: a row is inserted or committed only after upload_file and
\* head_object on that same key both succeeded, with a content length >= 0;
\* and when head_object succeeded the run commits exactly one row unless
\* the INSERT or the commit itself raised, in which case it commits none.
C2_RowOnlyAfterHeadAndUnlessSqlFails ==
    /\ (runRows # <<>> \/ pendingRow # <<>>) =>
            /\ uploaded # <<>>
            /\ headKey # <<>>
            /\ headKey = s3Key
            /\ uploaded[1].key = headKey[1]
            /\ headLen # <<>>
            /\ headLen[1] >= 0
    /\ (pc = "end" /\ headKey # <<>>) =>
            IF caught \in {"Error@insert", "Error@commit"}
            THEN runRows = <<>>
            ELSE Len(runRows) = 1

C2_Witness ==
    /\ pc = "end"
    /\ Len(runRows) = 1
    /\ headKey = s3Key
    /\ Has("commit")

TableMembers(format, asked, present) ==
    LET fs == IF asked /\ present THEN {FILESTORE} ELSE {}
    IN  CASE format \in {"s3zip", "zip"} -> {MANIFEST, DUMPSQL} \cup fs
          [] format = "folder" -> {MANIFEST, DBDUMP} \cup fs
          [] format = "dump" -> {DBDUMP}

\* C4: the artifact a successful run produced holds exactly the members
\* the format table gives for the format of the run.
C4_ArtifactMatchesFormatTable ==
    (pc = "end" /\ outcome = "success" /\ uploaded # <<>>
        /\ uploaded[1].complete) =>
        uploaded[1].members =
            TableMembers(args.format, args.filestore, fsPresent = <<TRUE>>)

\* C5: a run whose format is not s3zip never calls upload_file and never
\* inserts or commits an accounting row.
C5_ShippingOnlyForS3zip ==
    (pc # "idle" /\ args.format # "s3zip") =>
        /\ ~Has("upload")
        /\ uploaded = <<>>
        /\ pendingRow = <<>>
        /\ runRows = <<>>

\* C6: after a successful run with format zip, folder or dump the
\* assembled artifact is at the destination path.
C6_FinalOutputAtDest ==
    (pc = "end" /\ outcome = "success"
        /\ args.format \in {"zip", "folder", "dump"}) => dest = "artifact"

\* C7: when a run has ended, neither temporary directory exists any more,
\* nor anything that was in them, whatever the way the run ended.
C7_TempDirsRemoved ==
    pc = "end" =>
        /\ ~zipDir
        /\ ~dumpDir
        /\ dumpMembers = {}
        /\ archive = <<>>

C7_Witness ==
    /\ pc = "end"
    /\ Has("mk_zip_dir")
    /\ Has("mk_dump_dir")
    /\ caught = "Error@insert"
    /\ ~zipDir
    /\ ~dumpDir

\* C8: in a forced run onto an existing destination, the destination is
\* removed before the connection is made, the cursor opened, the manifest
\* built or pg_dump started, and it is gone whenever one of these happens.
C8_ForcedRemovalPrecedesAssembly ==
    (DestCollision /\ args.force) =>
        /\ Precedes("remove_dest", "db_connect")
        /\ Precedes("remove_dest", "cursor_open")
        /\ Precedes("remove_dest", "manifest")
        /\ Precedes("remove_dest", "pg_dump")
        /\ (pc \notin {"dest_check", "remove_dest", "end"}) => dest = "absent"
        /\ Has("db_connect") => dest = "absent"

C8_Witness ==
    /\ DestCollision
    /\ args.force
    /\ destInit = <<"dir">>
    /\ Has("remove_dest")
    /\ Has("pg_dump")
    /\ dest = "absent"

\* C9: a run with format dump never looks for the filestore and never
\* copies it, whatever the filestore flag.
C9_DumpNeverCollectsFilestore ==
    (pc # "idle" /\ args.format = "dump") =>
        /\ ~Has("copy_filestore")
        /\ fsPresent = <<>>
        /\ FILESTORE \notin dumpMembers
        /\ archive # <<>> => FILESTORE \notin archive[1].members

C9_Witness ==
    /\ args.format = "dump"
    /\ args.filestore
    /\ Has("7z")
    /\ archive # <<>>

SameDb(i, j) == shipped[i].db = shipped[j].db

SameButTs(k1, k2) == k1[1] = k2[1] /\ k1[2] = k2[2] /\ k1[4] = k2[4]

\* C10 as stated: two successful runs for the same database have distinct
\* object keys, which differ in the timestamp segment only.
C10_DistinctKeys ==
    \A i, j \in DOMAIN shipped :
        (i < j /\ SameDb(i, j)) =>
            /\ shipped[i].key # shipped[j].key
            /\ SameButTs(shipped[i].key, shipped[j].key)

\* C10, amended: the keys of two successful runs for the same database have
\* the same prefix, database and extension, and they are distinct exactly
\* when the two runs computed their key in different UTC seconds; a run
\* that computes its key in the second of an earlier run uploads under the
\* key of that run and replaces its object.
C10_KeysDistinctIffSecondsDiffer ==
    /\ \A i, j \in DOMAIN shipped :
        (i < j /\ SameDb(i, j)) =>
            /\ SameButTs(shipped[i].key, shipped[j].key)
            /\ shipped[i].key[1] = PRE
            /\ shipped[i].key[2] = shipped[i].db
            /\ shipped[i].key[4] = EXT
            /\ (shipped[i].key = shipped[j].key) <=>
                   (shipped[i].instant \div TicksPerSecond
                        = shipped[j].instant \div TicksPerSecond)
    /\ (pc = "end" /\ outcome = "success") =>
            \A i \in 1 .. (Len(shipped) - 1) :
                shipped[i].key = s3Key[1] => overwrote

C10_Witness ==
    /\ Len(shipped) = 2
    /\ SameDb(1, 2)
    /\ shipped[1].key = shipped[2].key
    /\ shipped[1].instant # shipped[2].instant
    /\ overwrote

InTry == Has("db_connect")

\* C11 as stated: whenever main's except clause caught an error, the
\* report file has been written and no error leaves main.
C11_EveryErrorReported ==
    (pc = "end" /\ caught # "none") =>
        /\ logFile
        /\ exc = "none"
        /\ outcome = "failed"

\* C11, amended: every error raised in the try block of main (cursor,
\* manifest, pg_dump, filestore copy, starting 7z, upload, existence check,
\* insert, commit) is caught by main's except clause; when the report file
\* can be written the report is written and no error leaves main; when
\* opening or writing the report file itself raises, no report is written
\* and that error leaves main.  At no point is anything written to dest.
C11_ErrorsCaughtReportedUnlessLogFails ==
    /\ (pc = "end" /\ InTry) =>
            \/ outcome = "success" /\ caught = "none" /\ exc = "none"
                   /\ ~logFile
            \/ outcome = "failed" /\ caught # "none" /\ exc = "none"
                   /\ logFile /\ Has("write_log")
            \/ outcome = "raised" /\ caught # "none" /\ exc = "OSError@log"
                   /\ ~logFile
    /\ (pc = "finally" /\ exc # "none") => exc = "OSError@log"
    /\ dest \in DestStates
    /\ destInit # <<>> => dest \in {destInit[1], "absent"}

C11_Witness ==
    /\ pc = "end"
    /\ caught = "Exception@pg_dump"
    /\ logFile
    /\ outcome = "failed"
    /\ dest = "absent"

\* C12: a run whose database does not exist does nothing: the destination
\* is not even looked at (so not removed, forced or not), no connection or
\* cursor is opened, no subprocess or upload is started; with --if-exists
\* it ends as a clean return, without it with the database-not-found error.
C12_MissingSourceNoSideEffect ==
    dbExists = <<FALSE>> =>
        /\ pc = "end"
        /\ trace = <<>>
        /\ destInit = <<>>
        /\ ~connected
        /\ closeCount = 0
        /\ cursor = "none"
        /\ uploaded = <<>>
        /\ runRows = <<>>
        /\ ~logFile
        /\ IF args.if_exists
           THEN outcome = "early_exit" /\ exc = "none"
           ELSE /\ outcome = "raised"
                /\ exc = "ClickException"
                /\ excText = {"Database does not exist"}

C12_Witness ==
    /\ dbExists = <<FALSE>>
    /\ args.force
    /\ args.if_exists
    /\ pc = "end"
    /\ outcome = "early_exit"

RowsOfRun == {runRows[i] : i \in DOMAIN runRows} \cup
             {pendingRow[i] : i \in DOMAIN pendingRow}

\* C13 as stated: the name in the accounting row of a run is the object
\* key the archive was uploaded under.
C13_RowNameIsKey ==
    \A r \in RowsOfRun : r.name = s3Key[1]

\* C13, amended: the name in the accounting row of a run is the generated
\* file name <dbname>_<ts>.zip, that is the object key without its prefix
\* "bkdaily/": the prefix followed by the name is the key the archive was
\* uploaded under and head_object was asked about in that run.
C13_RowNameIsKeyWithoutPrefix ==
    \A r \in RowsOfRun :
        /\ ObjectKey(r.name) = s3Key[1]
        /\ uploaded # <<>>
        /\ ObjectKey(r.name) = uploaded[1].key
        /\ headKey = <<ObjectKey(r.name)>>
        /\ r.name = <<args.dbname, Strftime(s3Instant[1]), EXT>>
        /\ r.name # s3Key[1]

C13_Witness ==
    /\ Len(runRows) = 1
    /\ pc = "end"
    /\ ObjectKey(runRows[1].name) = s3Key[1]
    /\ outcome = "success"

\* C14: once 7z has exited with a code other than 0 the run fails: it calls
\* upload_file no more and writes no accounting row.
C14_CompressionFailureStopsRun ==
    (sevenz.exited /\ sevenz.rc # 0) =>
        /\ ~Has("upload")
        /\ RowsOfRun = {}
        /\ pc = "end" => outcome # "success"

PgDumpError == "Exception@pg_dump"

\* C15: once pg_dump has exited with a code other than 0, an exception is
\* raised whose message carries the captured standard error, the run does
\* not end in success, and nothing of what follows pg_dump happens: no
\* filestore copy, no 7z, no upload, no accounting row.
C15_DumpFailureStopsRun ==
    Has("pg_dump_failed") =>
        /\ IF caught = "none"
           THEN exc = PgDumpError /\ "stderr" \in excText
           ELSE caught = PgDumpError
        /\ ~Has("copy_filestore")
        /\ fsPresent = <<>>
        /\ ~Has("7z")
        /\ archive = <<>>
        /\ ~Has("upload")
        /\ uploaded = <<>>
        /\ RowsOfRun = {}
        /\ pc = "end" => outcome \in {"failed", "raised"}

C15_Witness ==
    /\ Has("pg_dump_failed")
    /\ args.filestore
    /\ args.format = "s3zip"
    /\ pc = "end"
    /\ caught = PgDumpError
    /\ outcome = "failed"

CursorScope == {"mk_zip_dir", "mk_dump_dir", "manifest", "pg_dump",
                "filestore", "spawn_7z", "loop_7z", "exit_dump_dir", "s3_key",
                "upload", "head", "insert", "commit", "s3_clean",
                "exit_zip_dir", "exit_cursor"}

\* C16 as stated: when 7z is started or running and when upload_file is
\* called or has just returned, the cursor has already been released.
C16_SessionReleasedBeforeCompression ==
    pc \in {"spawn_7z", "loop_7z", "upload", "head"} => cursor # "open"

\* C16, amended: the cursor main acquires is held for the whole of
\* _odoo_basic_backup, compression and shipping included (the shipper
\* inserts the accounting row through it): it is open, on an open
\* connection, from the creation of the temporary directories until both
\* have been left, and it is released before the report is written and
\* before close_db.
C16_SessionHeldThroughShipping ==
    /\ cursor = "open" <=> pc \in CursorScope
    /\ cursor = "open" => connected
    /\ (Has("write_log") \/ Has("close_db")) => cursor # "open"
    /\ Precedes("cursor_open", "7z")
    /\ Precedes("cursor_open", "upload")
    /\ Has("cursor_close") =>
            /\ Precedes("7z", "cursor_close") \/ ~Has("7z")
            /\ Precedes("upload", "cursor_close") \/ ~Has("upload")

C16_Witness ==
    /\ pc = "head"
    /\ cursor = "open"
    /\ Has("7z")
    /\ uploaded # <<>>

\* no occurrence of b in the trace comes before or at an occurrence of a
Before(a, b) ==
    \A j \in DOMAIN trace :
        trace[j] = b => \A i \in j .. Len(trace) : trace[i] # a

\* C17 as stated: the manifest is built first, and a filestore copy, when
\* there is one, comes before pg_dump is started.
C17_FilestoreBeforeDump ==
    /\ Precedes("manifest", "pg_dump")
    /\ Before("copy_filestore", "pg_dump")

\* C17, amended: the assembling steps run in the order manifest, pg_dump,
\* filestore copy, all between the creation and the removal of the one
\* dump directory: the filestore copy, when it happens, always follows
\* pg_dump, and 7z is started after all three.
C17_ManifestDumpFilestore ==
    /\ Precedes("mk_dump_dir", "manifest")
    /\ Precedes("manifest", "pg_dump")
    /\ Precedes("pg_dump", "copy_filestore")
    /\ Before("manifest", "pg_dump")
    /\ Before("pg_dump", "copy_filestore")
    /\ Before("copy_filestore", "7z")
    /\ Precedes("pg_dump", "7z")
    /\ Before("manifest", "exit_dump_dir")
    /\ Before("pg_dump", "exit_dump_dir")
    /\ Before("copy_filestore", "exit_dump_dir")
    /\ pc \in {"manifest", "pg_dump", "filestore"} => dumpDir

C17_Witness ==
    /\ Has("manifest")
    /\ Has("pg_dump")
    /\ Has("copy_filestore")
    /\ Has("7z")
    /\ dumpMembers = {MANIFEST, DUMPSQL, FILESTORE}

\* C18: in the shipper the steps come in the order upload_file,
\* head_object, INSERT, commit, deletion of the local archive: the archive
\* is deleted only once the row is committed, and a row is inserted only
\* once head_object has answered.
C18_ShipperOrder ==
    /\ Precedes("upload", "head_object")
    /\ Precedes("head_object", "insert")
    /\ Precedes("insert", "commit")
    /\ Precedes("commit", "unlink_artifact")
    /\ Before("upload", "head_object")
    /\ Before("head_object", "insert")
    /\ Before("insert", "commit")
    /\ Before("commit", "unlink_artifact")
    /\ RowsOfRun # {} => (headKey # <<>> /\ headLen # <<>>)
    /\ Has("unlink_artifact") => (Len(runRows) = 1 /\ pendingRow = <<>>)
    /\ pc \in {"upload", "head", "insert", "commit"} =>
            ~Has("unlink_artifact")

C18_Witness ==
    /\ Has("unlink_artifact")
    /\ Has("commit")
    /\ Len(runRows) = 1
    /\ archive = <<>>
    /\ pc = "exit_zip_dir"

\* C19: once db_connect has returned, close_db is called exactly once
\* before the run ends, whether the run succeeds, fails in the pipeline, or
\* fails again while writing the report file; it is never called twice,
\* and never without a connection.
C19_CloseDbExactlyOnce ==
    /\ closeCount <= 1
    /\ (pc = "end" /\ Has("db_connect")) =>
            (closeCount = 1 /\ ~connected /\ Has("close_db"))
    /\ ~Has("db_connect") => (closeCount = 0 /\ ~connected)
    /\ connected => closeCount = 0

C19_Witness ==
    /\ pc = "end"
    /\ Has("db_connect")
    /\ exc = "OSError@log"
    /\ outcome = "raised"
    /\ closeCount = 1

\* C20: every invocation ends, in success, in failure or with an error, as
\* long as main keeps running and the 7z child exits; in particular the
\* loop that reads the output of 7z is left.
C20_Terminates ==
    /\ (pc = "db_exists") ~> (pc = "end" /\ outcome # "running")
    /\ (pc = "loop_7z") ~> (pc = "exit_dump_dir")

C20_Witness ==
    /\ pc = "exit_dump_dir"
    /\ exc = "none"
    /\ Has("7z")
    /\ sevenz.exited
    /\ sevenz.lines = 0
    /\ sevenz.rc = 0

====
